---- MODULE Spec2Model ----
(***************************************************************************)
(* Toroidal Game-of-Life engine of perf.cpp: GameBoard<Width, Height>,     *)
(* iterate_board and run_board<Width, Height, Iterations>.                 *)
(*                                                                         *)
(* A board's storage std::array<bool, Width*Height> is a function on       *)
(* 0 .. Width*Height-1.  The two unique_ptr<board_type> of run_board are   *)
(* the handles board1 and board2 into heap.                                *)
(***************************************************************************)
EXTENDS Integers, Sequences, FiniteSets, TLC

\* ---------------------------------------------------------------- bounds
MaxDim == 3
MaxIter == 4
MaxSeeds == 1
MaxCoord == 4

\* ----------------------------------------------------- program constants
TUNING == 100
SizeBits == 64

\* run_board<TUNING/5, TUNING/5, ...>
BoardDim == TUNING \div 5

VARIABLES Width, Height, Iterations, pc, heap, board1, board2, indices, i,
          result, nseeds, seeded

vars == <<Width, Height, Iterations, pc, heap, board1, board2, indices, i,
          result, nseeds, seeded>>

\* ------------------------------------------------------------ arithmetic

\* 2^n modulo m, by squaring (every intermediate value stays below m*m).
RECURSIVE Pow2Mod(_, _)
Pow2Mod(n, m) ==
  IF n = 0 THEN 1 % m
  ELSE LET h == Pow2Mod(n \div 2, m)
           sq == (h * h) % m
       IN IF n % 2 = 0 THEN sq ELSE (2 * sq) % m

\* dividend % divisor where dividend is std::int64_t and divisor is
\* std::size_t: the usual arithmetic conversions turn the dividend into
\* std::size_t first, so a negative k is read as 2^SizeBits + k.
SizeRem(k, m) ==
  IF k >= 0 THEN k % m ELSE (Pow2Mod(SizeBits, m) + (k % m)) % m

\* Mutant: the truncating remainder of two signed operands, nothing added.
floor_modulo_trunc(dividend, divisor) ==
  IF dividend >= 0
  THEN dividend % divisor
  ELSE 0 - ((0 - dividend) % divisor)

floor_modulo(dividend, divisor) ==
  (SizeRem(dividend, divisor) + divisor) % divisor

\* ----------------------------------------------------------------- Point

Point(px, py) == [x |-> px, y |-> py]

PointAdd(p, rhs) == Point(p.x + rhs.x, p.y + rhs.y)

\* Mutant: Point{1, 1} mistyped as a second Point{0, 1}.
neighbors_dup ==
  << Point(-1, 0), Point(1, 0),
     Point(-1, -1), Point(0, -1), Point(1, -1),
     Point(-1, 1), Point(0, 1), Point(0, 1) >>

neighbors ==
  << Point(-1, 0), Point(1, 0),
     Point(-1, -1), Point(0, -1), Point(1, -1),
     Point(-1, 1), Point(0, 1), Point(1, 1) >>

\* ------------------------------------------------------------- GameBoard

\* A value-initialised board: every cell false.
EmptyData == [k \in 0 .. (Width * Height - 1) |-> FALSE]

index(p) == floor_modulo(p.y, Height) * Width + floor_modulo(p.x, Width)

\* operator[]
at(data, p) == data[index(p)]

set(data, p) == [data EXCEPT ![index(p)] = TRUE]

count_neighbors(data, p) ==
  Cardinality({n \in DOMAIN neighbors : at(data, PointAdd(p, neighbors[n]))})

Row(y) == [x1 \in 1 .. Width |-> Point(x1 - 1, y)]

RECURSIVE Rows(_)
Rows(y) == IF y < Height THEN Row(y) \o Rows(y + 1) ELSE << >>

make_indexes ==
  LET s == Rows(0) IN [k \in 0 .. (Len(s) - 1) |-> s[k + 1]]

add_glider(data, p) ==
  set(set(set(set(set(data, p),
                  PointAdd(p, Point(1, 1))),
              PointAdd(p, Point(2, 1))),
          PointAdd(p, Point(0, 2))),
      PointAdd(p, Point(1, 2)))

\* --------------------------------------------------------- iterate_board

\* Mutant: the survival test `neighbor_count <= 3` written `< 3`.
rule_table_lt3(is_alive, neighbor_count) ==
  IF is_alive
  THEN IF neighbor_count < 2 THEN FALSE
       ELSE IF neighbor_count < 3 THEN TRUE
       ELSE FALSE
  ELSE IF neighbor_count = 3 THEN TRUE ELSE FALSE

\* Mutant: the birth test `neighbor_count == 3` written `<= 3`.
rule_table_birth(is_alive, neighbor_count) ==
  IF is_alive
  THEN IF neighbor_count < 2 THEN FALSE
       ELSE IF neighbor_count <= 3 THEN TRUE
       ELSE FALSE
  ELSE IF neighbor_count <= 3 THEN TRUE ELSE FALSE

\* The if/else chain of the lambda `rules`.
rule_table(is_alive, neighbor_count) ==
  IF is_alive
  THEN IF neighbor_count < 2 THEN FALSE
       ELSE IF neighbor_count <= 3 THEN TRUE
       ELSE FALSE
  ELSE IF neighbor_count = 3 THEN TRUE ELSE FALSE

rules(input, p) ==
  LET neighbor_count == count_neighbors(input, p)
      is_alive == at(input, p)
  IN rule_table(is_alive, neighbor_count)

\* Mutant: a cell already set in the output buffer stays set.
iterate_board_stale(input, output, idx) ==
  [k \in DOMAIN output |->
     IF k \in DOMAIN idx THEN output[k] \/ rules(input, idx[k]) ELSE output[k]]

\* std::transform(indices.begin(), indices.end(), output.data.begin(), rules)
iterate_board(input, output, idx) ==
  [k \in DOMAIN output |->
     IF k \in DOMAIN idx THEN rules(input, idx[k]) ELSE output[k]]

\* ------------------------------------------------------------- run_board

Coord == (0 - MaxCoord) .. MaxCoord
Points == {Point(px, py) : px \in Coord, py \in Coord}

\* The anchors run_board seeds.
Anchors == {Point(1, 3), Point(10, 1)}

SmallDims == (1 .. MaxDim) \X (1 .. MaxDim)
AnyDims == (0 .. MaxDim) \X (0 .. MaxDim)

Small == Width <= MaxDim /\ Height <= MaxDim

\* Seeding inputs: any point of the window on a small board, the program's
\* anchors on the BoardDim board.
SeedPoints == IF Small THEN Points ELSE Anchors

\* Seeding calls allowed: MaxSeeds on a small board, the program's two
\* add_glider calls on the BoardDim board.
SeedLimit == IF Small THEN MaxSeeds ELSE Cardinality(Anchors)

\* A modulus of zero makes the % of floor_modulo undefined.
ZeroDim == Width = 0 \/ Height = 0

\* Mutant: the loop test `i < Iterations` written `i <= Iterations`.
loop_cond_le == i <= Iterations

loop_cond == i < Iterations

InitDims(dims) ==
  /\ \E d \in dims \cup {<<BoardDim, BoardDim>>} :
       /\ Width = d[1]
       /\ Height = d[2]
  /\ Iterations \in 0 .. MaxIter
  /\ pc = "seed"
  /\ board1 = 1
  /\ board2 = 0
  /\ heap = (1 :> EmptyData)
  /\ indices = << >>
  /\ i = 0
  /\ result = FALSE
  /\ nseeds = 0
  /\ seeded = << >>

Init == InitDims(SmallDims)

InitAny == InitDims(AnyDims)

\* board1->set(p) during seeding
SetCell(p) ==
  /\ pc = "seed"
  /\ nseeds < SeedLimit
  /\ p \in SeedPoints
  /\ nseeds' = nseeds + 1
  /\ IF ZeroDim
     THEN pc' = "ub" /\ heap' = heap
     ELSE pc' = pc /\ heap' = [heap EXCEPT ![board1] = set(@, p)]
  /\ UNCHANGED <<Width, Height, Iterations, board1, board2, indices, i,
                 result, seeded>>

\* board1->add_glider(p)
AddGlider(p) ==
  /\ pc = "seed"
  /\ nseeds < SeedLimit
  /\ p \in SeedPoints
  /\ nseeds' = nseeds + 1
  /\ IF ZeroDim
     THEN pc' = "ub" /\ heap' = heap
     ELSE pc' = pc /\ heap' = [heap EXCEPT ![board1] = add_glider(@, p)]
  /\ UNCHANGED <<Width, Height, Iterations, board1, board2, indices, i,
                 result, seeded>>

\* board2 = make_unique<board_type>(); indices = make_indexes(); i = 0
Start ==
  /\ pc = "seed"
  /\ pc' = "loop"
  /\ board2' = 2
  /\ heap' = heap @@ (2 :> EmptyData)
  /\ indices' = make_indexes
  /\ i' = 0
  /\ seeded' = heap[board1]
  /\ UNCHANGED <<Width, Height, Iterations, board1, result, nseeds>>

\* One pass of the loop body: iterate_board(*board1, *board2, *indices);
\* std::swap(board1, board2); ++i
Step ==
  /\ pc = "loop"
  /\ loop_cond
  /\ heap' = [heap EXCEPT
                ![board2] = iterate_board(heap[board1], heap[board2], indices)]
  /\ board1' = board2
  /\ board2' = board1
  /\ i' = i + 1
  /\ UNCHANGED <<Width, Height, Iterations, pc, indices, result, nseeds,
                 seeded>>

\* return (*board1)[Point(0, 0)]
Finish ==
  /\ pc = "loop"
  /\ ~loop_cond
  /\ IF ZeroDim
     THEN pc' = "ub" /\ result' = result
     ELSE pc' = "done" /\ result' = at(heap[board1], Point(0, 0))
  /\ UNCHANGED <<Width, Height, Iterations, heap, board1, board2, indices, i,
                 nseeds, seeded>>

Next ==
  \/ \E p \in Points \cup Anchors : SetCell(p)
  \/ \E p \in Points \cup Anchors : AddGlider(p)
  \/ Start
  \/ Step
  \/ Finish

Spec == Init /\ [][Next]_vars

\* The same program, instantiated with a width or height of zero as well.
SpecAny == InitAny /\ [][Next]_vars

\* ------------------------------------------------------------ properties

Running == pc \in {"loop", "done"}

Slots == 0 .. (Width * Height - 1)

AllDead(data) == \A k \in DOMAIN data : ~data[k]

LiveSlots(data) == {k \in DOMAIN data : data[k]}

\* Floor-modulo on the integers: the result lies in 0 .. m-1.
Wrap(k, m) == k % m

\* The slot of p on the torus.
TorusIndex(p) == Wrap(p.y, Height) * Width + Wrap(p.x, Width)

\* Number of the 8 neighbour offsets whose torus cell is alive.
TorusCount(data, p) ==
  Cardinality({n \in DOMAIN neighbors :
                 data[TorusIndex(PointAdd(p, neighbors[n]))]})

\* The Game-of-Life table.
LifeTable(alive, n) == IF alive THEN n \in {2, 3} ELSE n = 3

OnlyOrigin == [k \in Slots |-> k = 0]

\* C1: the wrap of index is a floor-modulo: for every k of the window and
\* both moduli, wrap(k, m) = wrap(k + m, m), and -1 wraps to m - 1.
C1_WrapIsFloorModulo ==
  \A m \in {Width, Height} :
    /\ \A k \in Coord : floor_modulo(k, m) = floor_modulo(k + m, m)
    /\ floor_modulo(0 - 1, m) = m - 1

\* C2: every coordinate of the window, negative ones included, maps to a
\* slot inside the storage of every allocated board.
C2_IndexInRange ==
  /\ \A p \in Points : index(p) \in Slots
  /\ \A b \in DOMAIN heap : DOMAIN heap[b] = Slots

\* C2 witness: a step has run and its lookup of the negative coordinate
\* (-1, -1), a neighbour of cell (0, 0), read a live cell of its input.
C2_Witness ==
  /\ Running
  /\ i >= 1
  /\ Width >= 2
  /\ at(heap[board2], Point(0 - 1, 0 - 1))

\* C3: count_neighbors(p) is the number of live cells among the 8 torus
\* neighbours of p, for every cell p of the board.
C3_CountIsTorusCount ==
  \A b \in DOMAIN heap : \A k \in DOMAIN indices :
    count_neighbors(heap[b], indices[k]) = TorusCount(heap[b], indices[k])

\* C4: on the 3x3 board seeded with the origin alone, the board after one
\* step is all-dead.
C4_OriginDies ==
  (/\ Running
   /\ Width = 3
   /\ Height = 3
   /\ seeded = OnlyOrigin
   /\ i = 1) => AllDead(heap[board1])

\* C5: on the BoardDim x BoardDim board seeded with one glider at (1, 3),
\* the board after 4 steps holds exactly the glider at (2, 4).
C5_GliderTranslates ==
  (/\ Running
   /\ Width = BoardDim
   /\ Height = BoardDim
   /\ seeded = add_glider(EmptyData, Point(1, 3))
   /\ i = 4) => heap[board1] = add_glider(EmptyData, Point(2, 4))

C5_Witness ==
  /\ pc = "done"
  /\ Width = BoardDim
  /\ Height = BoardDim
  /\ seeded = add_glider(EmptyData, Point(1, 3))
  /\ i = 4
  /\ Cardinality(LiveSlots(heap[board1])) = 5

\* C6: the rule of a step is the Game-of-Life table on all 18 inputs, and
\* each cell written by a step is that table applied to the cell's previous
\* liveness and neighbour count (after the swap board2 is the step's input).
C6_RuleIsLifeTable ==
  /\ \A alive \in BOOLEAN : \A n \in 0 .. 8 :
       rule_table(alive, n) = LifeTable(alive, n)
  /\ (Running /\ i >= 1) =>
       \A k \in DOMAIN indices :
         heap[board1][k] =
           LifeTable(heap[board2][k],
                     count_neighbors(heap[board2], indices[k]))

\* C6 witness: a step in which a cell was born, one survived and one died.
C6_Witness ==
  /\ Running
  /\ i >= 1
  /\ \E k \in Slots : ~heap[board2][k] /\ heap[board1][k]
  /\ \E k \in Slots : heap[board2][k] /\ heap[board1][k]
  /\ \E k \in Slots : heap[board2][k] /\ ~heap[board1][k]

\* C7: with Iterations = 0 the run ends with no step and no swap, and the
\* board it queries is the seeded board, cell by cell.
C7_ZeroIterations ==
  (pc = "done" /\ Iterations = 0) =>
    /\ i = 0
    /\ board1 = 1
    /\ heap[board1] = seeded
    /\ result = at(seeded, Point(0, 0))

C7_Witness ==
  /\ pc = "done"
  /\ Iterations = 0
  /\ ~AllDead(seeded)
  /\ result

\* C8: from an all-dead board the current board is all-dead after every
\* step.
C8_EmptyStaysEmpty ==
  (Running /\ AllDead(seeded)) => AllDead(heap[board1])

C8_Witness ==
  /\ pc = "done"
  /\ AllDead(seeded)
  /\ i >= 2
  /\ Width >= 2
  /\ Height >= 2
  /\ AllDead(heap[board1])

\* C9: a board of width or height zero never has a wrap computed with a
\* modulus of zero.
C9_ZeroDimRejected == ZeroDim => pc # "ub"

\* C10: make_indexes lists every cell once in row-major order with
\* index(indices[k]) = k, and after a step every slot k of the current board
\* holds rules(input, indices[k]), whatever the buffer held before.
C10_StepOverwrites ==
  Running =>
    /\ DOMAIN indices = Slots
    /\ \A k \in Slots :
         /\ indices[k] = Point(k % Width, k \div Width)
         /\ index(indices[k]) = k
    /\ i >= 1 => \A k \in Slots : heap[board1][k] = rules(heap[board2], indices[k])

\* C10 witness: the second step wrote into the buffer that held the seeded
\* board, over a live cell that the rule makes dead.
C10_Witness ==
  /\ Running
  /\ i = 2
  /\ \E k \in Slots : seeded[k] /\ ~heap[board1][k]

====
